---- MODULE Spec2Model ----
(***************************************************************************)
(* A model of the GELF writer of logrus-graylog-hook: the JSON codec of    *)
(* Message (MarshalJSON / UnmarshalJSON), the UDP transport (WriteMessage  *)
(* and writeChunked, run by concurrent callers that share one connection)  *)
(* and the HTTP transport.                                                 *)
(*                                                                         *)
(* A JSON number is held in thousandths (6 is 6000, 1.5 is 1500): that is  *)
(* the resolution of Message.TimeUnix and enough to tell an integer from   *)
(* a fraction.  Strings hold ASCII, two-byte UTF-8 sequences and the byte  *)
(* 0xFF, which no UTF-8 text holds.                                        *)
(***************************************************************************)
EXTENDS Integers, Sequences, FiniteSets, TLC

(***************************************************************************)
(* Byte strings (Go string and []byte).  A byte string is a sequence of    *)
(* segments, each either literal bytes or a run of the caller's text: the  *)
(* bytes number from .. from+n-1 of the text a caller logs, whose values   *)
(* the code never inspects.  Two byte strings built by the operators below *)
(* are equal exactly when they hold the same bytes in the same order,      *)
(* whatever the text is: adjacent literals are kept merged, and so are     *)
(* adjacent runs that continue one another.                                *)
(***************************************************************************)
Lit(s) == IF s = <<>> THEN <<>> ELSE <<[lit |-> s, from |-> 0, n |-> Len(s)]>>

Text(from, n) == IF n <= 0 THEN <<>> ELSE <<[lit |-> <<>>, from |-> from, n |-> n]>>

RECURSIVE BLen(_)
\* len(b).
BLen(b) == IF b = <<>> THEN 0 ELSE b[1].n + BLen(Tail(b))

\* The first k bytes of a segment, and the segment without them.
SegTake(s, k) ==
    IF s.from = 0 THEN [lit |-> SubSeq(s.lit, 1, k), from |-> 0, n |-> k]
    ELSE [s EXCEPT !.n = k]

SegDrop(s, k) ==
    IF s.from = 0 THEN [lit |-> SubSeq(s.lit, k + 1, s.n), from |-> 0, n |-> s.n - k]
    ELSE [lit |-> <<>>, from |-> s.from + k, n |-> s.n - k]

RECURSIVE BTake(_, _)
\* b[:k], for 0 <= k <= len(b).
BTake(b, k) ==
    IF k <= 0 \/ b = <<>> THEN <<>>
    ELSE IF b[1].n <= k THEN <<b[1]>> \o BTake(Tail(b), k - b[1].n)
    ELSE <<SegTake(b[1], k)>>

RECURSIVE BDrop(_, _)
\* b[k:], for 0 <= k <= len(b).
BDrop(b, k) ==
    IF k <= 0 \/ b = <<>> THEN b
    ELSE IF b[1].n <= k THEN BDrop(Tail(b), k - b[1].n)
    ELSE <<SegDrop(b[1], k)>> \o Tail(b)

\* b[off : off+len], for 0 <= off and off+len <= len(b).
BSlice(b, off, len) == BTake(BDrop(b, off), len)

\* append(a, b...), buf.Write(b): a followed by b.
BCat(a, b) ==
    IF a = <<>> THEN b
    ELSE IF b = <<>> THEN a
    ELSE LET s == a[Len(a)]
             t == b[1]
         IN  IF (s.from = 0 /\ t.from = 0) \/ (s.from > 0 /\ t.from = s.from + s.n)
             THEN SubSeq(a, 1, Len(a) - 1)
                  \o <<[lit |-> s.lit \o t.lit, from |-> s.from, n |-> s.n + t.n]>>
                  \o Tail(b)
             ELSE a \o b

RECURSIVE BBytes(_)
\* The bytes of b one by one; the text's byte number p reads as a letter.
BBytes(b) ==
    IF b = <<>> THEN <<>>
    ELSE (IF b[1].from = 0 THEN b[1].lit
          ELSE [k \in 1..b[1].n |-> 97 + ((b[1].from + k - 1) % 26)])
         \o BBytes(Tail(b))

(***************************************************************************)
(* The json tags of Message's fields                                       *)
(***************************************************************************)
K_version       == Lit(<<118, 101, 114, 115, 105, 111, 110>>)
K_host          == Lit(<<104, 111, 115, 116>>)
K_short_message == Lit(<<115, 104, 111, 114, 116, 95, 109, 101, 115, 115, 97, 103, 101>>)
K_full_message  == Lit(<<102, 117, 108, 108, 95, 109, 101, 115, 115, 97, 103, 101>>)
K_timestamp     == Lit(<<116, 105, 109, 101, 115, 116, 97, 109, 112>>)
K_level         == Lit(<<108, 101, 118, 101, 108>>)
K_facility      == Lit(<<102, 97, 99, 105, 108, 105, 116, 121>>)
K_file          == Lit(<<102, 105, 108, 101>>)
K_line          == Lit(<<108, 105, 110, 101>>)

\* In struct order; Extra is tagged "-".
FixedKeys ==
    <<K_version, K_host, K_short_message, K_full_message, K_timestamp,
      K_level, K_facility, K_file, K_line>>

FixedKeySet == { FixedKeys[j] : j \in 1..Len(FixedKeys) }

(***************************************************************************)
(* Values of interface{} as encoding/json handles them                     *)
(***************************************************************************)
StrV(s)  == [t |-> "str",  s |-> s,    n |-> 0]
NumV(n)  == [t |-> "num",  s |-> <<>>, n |-> n]
BoolV(b) == [t |-> "bool", s |-> <<>>, n |-> IF b THEN 1 ELSE 0]
NullV    == [t |-> "null", s |-> <<>>, n |-> 0]
\* A Go value encoding/json cannot represent (a channel, a func).
ChanV    == [t |-> "chan", s |-> <<>>, n |-> 0]

RECURSIVE Digits(_)
\* strconv: the decimal digits of n >= 0.
Digits(n) ==
    IF n < 10 THEN <<48 + n>> ELSE Digits(n \div 10) \o <<48 + (n % 10)>>

\* encoding/json of an int or int32 field.
FormatInt(i) == Lit(IF i < 0 THEN <<45>> \o Digits(-i) ELSE Digits(i))

\* encoding/json of a float64 (shortest form): n is in thousandths.
FormatFloat(n) ==
    LET a    == IF n < 0 THEN -n ELSE n
        f    == a % 1000
        d1   == <<48 + (f \div 100)>>
        d2   == <<48 + ((f \div 10) % 10)>>
        d3   == <<48 + (f % 10)>>
        frac == IF f = 0 THEN <<>>
                ELSE IF f % 100 = 0 THEN <<46>> \o d1
                ELSE IF f % 10 = 0 THEN <<46>> \o d1 \o d2
                ELSE <<46>> \o d1 \o d2 \o d3
    IN  Lit((IF n < 0 THEN <<45>> ELSE <<>>) \o Digits(a \div 1000) \o frac)

\* The lower-case hexadecimal digit of d in 0..15.
Hex(d) == IF d < 10 THEN 48 + d ELSE 87 + d

\* b begins a two-byte UTF-8 sequence, b continues one.
IsLead2(b) == b >= 194 /\ b <= 223
IsCont(b)  == b >= 128 /\ b <= 191

RECURSIVE EscapeBytes(_, _)
\* encoding/json of the bytes s[j..] of a string: '"' and '\' after a
\* backslash, \n \r \t by letter, other control bytes and < > & as \u00XX,
\* each byte that is not part of valid UTF-8 as \ufffd.
EscapeBytes(s, j) ==
    IF j > Len(s) THEN <<>>
    ELSE LET b == s[j]
         IN  CASE b = 34 \/ b = 92 -> <<92, b>> \o EscapeBytes(s, j + 1)
               [] b = 10 -> <<92, 110>> \o EscapeBytes(s, j + 1)
               [] b = 13 -> <<92, 114>> \o EscapeBytes(s, j + 1)
               [] b = 9  -> <<92, 116>> \o EscapeBytes(s, j + 1)
               [] b < 32 \/ b = 60 \/ b = 62 \/ b = 38 ->
                      <<92, 117, 48, 48, Hex(b \div 16), Hex(b % 16)>>
                      \o EscapeBytes(s, j + 1)
               [] b < 128 -> <<b>> \o EscapeBytes(s, j + 1)
               [] IsLead2(b) /\ j < Len(s) /\ IsCont(s[j + 1]) ->
                      <<b, s[j + 1]>> \o EscapeBytes(s, j + 2)
               [] OTHER -> <<92, 117, 102, 102, 102, 100>> \o EscapeBytes(s, j + 1)

RECURSIVE Escape(_)
\* The same of a byte string: the caller's text holds letters only.
Escape(s) ==
    IF s = <<>> THEN <<>>
    ELSE BCat(IF s[1].from = 0 THEN Lit(EscapeBytes(s[1].lit, 1)) ELSE <<s[1]>>,
              Escape(Tail(s)))

\* encoding/json of a string: escaped and quoted.
Quote(s) == BCat(BCat(Lit(<<34>>), Escape(s)), Lit(<<34>>))

\* encoding/json of one interface{} value; ChanV is refused by the caller.
EncodeValue(v) ==
    CASE v.t = "str"  -> Quote(v.s)
      [] v.t = "num"  -> FormatFloat(v.n)
      [] v.t = "bool" -> IF v.n = 1 THEN Lit(<<116, 114, 117, 101>>)
                         ELSE Lit(<<102, 97, 108, 115, 101>>)
      [] OTHER        -> Lit(<<110, 117, 108, 108>>)

RECURSIVE BytesLess(_, _)
\* Byte-wise order of two strings, given byte by byte.
BytesLess(a, b) ==
    IF a = <<>> THEN b # <<>>
    ELSE IF b = <<>> THEN FALSE
    ELSE IF a[1] # b[1] THEN a[1] < b[1]
    ELSE BytesLess(Tail(a), Tail(b))

RECURSIVE SortedKeys(_)
\* The keys of a map in the order encoding/json writes them.
SortedKeys(S) ==
    IF S = {} THEN <<>>
    ELSE LET k == CHOOSE x \in S :
                      \A y \in S \ {x} : BytesLess(BBytes(x), BBytes(y))
         IN  <<k>> \o SortedKeys(S \ {k})

RECURSIVE JoinMembers(_, _, _)
\* "k1":v1,"k2":v2,... for the keys ks[j..] of the mapping val.
JoinMembers(ks, val, j) ==
    IF j > Len(ks) THEN <<>>
    ELSE BCat(BCat(BCat(Quote(ks[j]), Lit(<<58>>)), val[ks[j]]),
              IF j < Len(ks) THEN BCat(Lit(<<44>>), JoinMembers(ks, val, j + 1))
              ELSE <<>>)

\* json.Marshal((*innerMessage)(m)): the nine tagged fields, in struct order.
MarshalInner(m) ==
    LET val == [k \in FixedKeySet |->
                  CASE k = K_version       -> Quote(m.Version)
                    [] k = K_host          -> Quote(m.Host)
                    [] k = K_short_message -> Quote(m.Short)
                    [] k = K_full_message  -> Quote(m.Full)
                    [] k = K_timestamp     -> FormatFloat(m.TimeUnix)
                    [] k = K_level         -> FormatInt(m.Level)
                    [] k = K_facility      -> Quote(m.Facility)
                    [] k = K_file          -> Quote(m.File)
                    [] OTHER               -> FormatInt(m.Line)]
    IN  BCat(BCat(Lit(<<123>>), JoinMembers(FixedKeys, val, 1)), Lit(<<125>>))

\* json.Marshal(extra) of a map[string]interface{}: keys sorted, an error for
\* a value that has no JSON form.
MarshalMap(extra) ==
    IF \E k \in DOMAIN extra : extra[k].t = "chan"
    THEN [err |-> TRUE, b |-> <<>>]
    ELSE [err |-> FALSE,
          b   |-> BCat(BCat(Lit(<<123>>),
                            JoinMembers(SortedKeys(DOMAIN extra),
                                        [k \in DOMAIN extra |-> EncodeValue(extra[k])],
                                        1)),
                       Lit(<<125>>))]

\* MarshalJSON appending the whole of eb, its opening brace included.
MarshalJSON_KeepBrace(m) ==
    LET b  == MarshalInner(m)
        eb == MarshalMap(m.Extra)
    IN  IF DOMAIN m.Extra = {} THEN [err |-> FALSE, b |-> b]
        ELSE IF eb.err THEN [err |-> TRUE, b |-> <<>>]
        ELSE [err |-> FALSE,
              b   |-> BCat(BCat(BTake(b, BLen(b) - 1), Lit(<<44>>)), eb.b)]

\* Message.MarshalJSON: b[len(b)-1] = ',' and append(b, eb[1:len(eb)]...).
MarshalJSON(m) ==
    LET b  == MarshalInner(m)
        eb == MarshalMap(m.Extra)
    IN  IF DOMAIN m.Extra = {} THEN [err |-> FALSE, b |-> b]
        ELSE IF eb.err THEN [err |-> TRUE, b |-> <<>>]
        ELSE [err |-> FALSE,
              b   |-> BCat(BCat(BTake(b, BLen(b) - 1), Lit(<<44>>)),
                           BSlice(eb.b, 1, BLen(eb.b) - 1))]

(***************************************************************************)
(* json.Unmarshal(data, &i) with i a map[string]interface{}: a parser of   *)
(* one flat JSON object, given byte by byte.  A parse result is            *)
(* [ok, v, next]: the value read and the index of the first byte after it. *)
(***************************************************************************)
ParseFail == [ok |-> FALSE, v |-> NullV, next |-> 0]

IsDigit(b) == b >= 48 /\ b <= 57

RECURSIVE ScanDigits(_, _)
\* The first index >= p of data that holds no digit.
ScanDigits(data, p) ==
    IF p <= Len(data) /\ IsDigit(data[p]) THEN ScanDigits(data, p + 1) ELSE p

RECURSIVE DigitsValue(_, _, _)
\* The number written by the digits data[a..b-1].
DigitsValue(data, a, b) ==
    IF a >= b THEN 0
    ELSE DigitsValue(data, a, b - 1) * 10 + (data[b - 1] - 48)

RECURSIVE FindQuote(_, _)
\* The index of the first '"' at or after p that no backslash precedes, or 0.
FindQuote(data, p) ==
    IF p > Len(data) THEN 0
    ELSE IF data[p] = 34 THEN p
    ELSE IF data[p] = 92 THEN FindQuote(data, p + 2)
    ELSE FindQuote(data, p + 1)

\* The value of a hexadecimal digit, or -1.
HexValue(b) ==
    IF b >= 48 /\ b <= 57 THEN b - 48
    ELSE IF b >= 97 /\ b <= 102 THEN b - 87
    ELSE IF b >= 65 /\ b <= 70 THEN b - 55
    ELSE -1

\* \uXXXX at data[p..p+5]: the bytes of the rune as UTF-8, for the runes
\* U+0001..U+007F and for U+FFFD; <<-1>> marks anything else.
Unicode(data, p) ==
    IF p + 5 > Len(data) THEN <<-1>>
    ELSE LET h == [k \in 1..4 |-> HexValue(data[p + 1 + k])]
         IN  IF \E k \in 1..4 : h[k] < 0 THEN <<-1>>
             ELSE IF h[1] = 0 /\ h[2] = 0 /\ h[3] < 8 /\ h[3] * 16 + h[4] > 0
                  THEN <<h[3] * 16 + h[4]>>
             ELSE IF h = <<15, 15, 15, 13>> THEN <<239, 191, 189>>
             ELSE <<-1>>

\* The byte written by a backslash and the byte e; <<-1>> if there is none.
Escaped(e) ==
    CASE e = 34 \/ e = 92 \/ e = 47 -> <<e>>
      [] e = 110 -> <<10>>
      [] e = 114 -> <<13>>
      [] e = 116 -> <<9>>
      [] e = 98  -> <<8>>
      [] e = 102 -> <<12>>
      [] OTHER   -> <<-1>>

RECURSIVE Unescape(_, _, _)
\* The string written in data[p..q-1]; it holds -1 where the text is not
\* that of a JSON string.
Unescape(data, p, q) ==
    IF p >= q THEN <<>>
    ELSE IF data[p] < 32 THEN <<-1>>
    ELSE IF data[p] # 92 THEN <<data[p]>> \o Unescape(data, p + 1, q)
    ELSE IF p + 1 >= q THEN <<-1>>
    ELSE IF data[p + 1] = 117
         THEN IF p + 6 > q THEN <<-1>>
              ELSE Unicode(data, p) \o Unescape(data, p + 6, q)
    ELSE Escaped(data[p + 1]) \o Unescape(data, p + 2, q)

\* The string whose text u ends before the quote at q.
StringValue(u, q) ==
    IF \E k \in 1..Len(u) : u[k] = -1 THEN ParseFail
    ELSE [ok |-> TRUE, v |-> StrV(Lit(u)), next |-> q + 1]

\* The string that opens at p and closes at q (0: it does not close).
StringUpTo(data, p, q) ==
    IF q = 0 THEN ParseFail ELSE StringValue(Unescape(data, p + 1, q), q)

ParseString(data, p) ==
    IF p > Len(data) \/ data[p] # 34 THEN ParseFail
    ELSE StringUpTo(data, p, FindQuote(data, p + 1))

\* A number -?digits(.digits)?, read to thousandths.
ParseNumber(data, p) ==
    LET neg  == p <= Len(data) /\ data[p] = 45
        a    == IF neg THEN p + 1 ELSE p
        b    == ScanDigits(data, a)
        dot  == b <= Len(data) /\ data[b] = 46
        c    == IF dot THEN ScanDigits(data, b + 1) ELSE b
        nf   == c - (b + 1)
        fr   == IF ~dot THEN 0
                ELSE IF nf = 1 THEN DigitsValue(data, b + 1, c) * 100
                ELSE IF nf = 2 THEN DigitsValue(data, b + 1, c) * 10
                ELSE DigitsValue(data, b + 1, b + 4)
        abs  == DigitsValue(data, a, b) * 1000 + fr
    IN  IF b = a \/ (dot /\ nf < 1) THEN ParseFail
        ELSE [ok |-> TRUE, v |-> NumV(IF neg THEN -abs ELSE abs), next |-> c]

ParseLiteral(data, p, word, v) ==
    IF p + Len(word) - 1 <= Len(data) /\ SubSeq(data, p, p + Len(word) - 1) = word
    THEN [ok |-> TRUE, v |-> v, next |-> p + Len(word)]
    ELSE ParseFail

ParseValue(data, p) ==
    IF p > Len(data) THEN ParseFail
    ELSE CASE data[p] = 34  -> ParseString(data, p)
           [] data[p] = 116 -> ParseLiteral(data, p, <<116, 114, 117, 101>>, BoolV(TRUE))
           [] data[p] = 102 -> ParseLiteral(data, p, <<102, 97, 108, 115, 101>>, BoolV(FALSE))
           [] data[p] = 110 -> ParseLiteral(data, p, <<110, 117, 108, 108>>, NullV)
           [] OTHER         -> ParseNumber(data, p)

\* The map with key k set to v: a repeated key keeps its last value.
MapPut(map, k, v) ==
    [y \in DOMAIN map \cup {k} |-> IF y = k THEN v ELSE map[y]]

RECURSIVE ParseMembers(_, _, _)

\* After the member with key k and value v: a comma and the next member,
\* or the closing brace at the end of data.
AfterMember(data, acc, k, v) ==
    IF ~v.ok \/ v.next > Len(data) THEN [err |-> TRUE, map |-> <<>>]
    ELSE IF data[v.next] = 44
         THEN ParseMembers(data, v.next + 1, MapPut(acc, k.v.s, v.v))
    ELSE IF data[v.next] = 125 /\ v.next = Len(data)
         THEN [err |-> FALSE, map |-> MapPut(acc, k.v.s, v.v)]
    ELSE [err |-> TRUE, map |-> <<>>]

\* After the key k: the colon and the value.
AfterKey(data, acc, k) ==
    IF ~k.ok \/ k.next > Len(data) \/ data[k.next] # 58
    THEN [err |-> TRUE, map |-> <<>>]
    ELSE AfterMember(data, acc, k, ParseValue(data, k.next + 1))

\* The members "k":v{,"k":v} and the closing brace, from index p on.
ParseMembers(data, p, acc) == AfterKey(data, acc, ParseString(data, p))

Unmarshal(b) ==
    LET data == BBytes(b)
    IN  IF Len(data) < 2 \/ data[1] # 123 THEN [err |-> TRUE, map |-> <<>>]
        ELSE IF data = <<123, 125>> THEN [err |-> FALSE, map |-> <<>>]
        ELSE ParseMembers(data, 2, <<>>)

(***************************************************************************)
(* Message.UnmarshalJSON                                                   *)
(***************************************************************************)
\* The zero Message.
ZeroMessage ==
    [Version |-> <<>>, Host |-> <<>>, Short |-> <<>>, Full |-> <<>>,
     TimeUnix |-> 0, Level |-> 0, Facility |-> <<>>, File |-> <<>>,
     Line |-> 0, Extra |-> <<>>]

\* int32(f), int(f) of a float64 f held in thousandths: truncation to zero.
TruncInt(n) == IF n >= 0 THEN n \div 1000 ELSE -((-n) \div 1000)

\* The type a fixed field's assertion v.(string) or v.(float64) asks for.
AssertedType(k) ==
    IF k \in {K_timestamp, K_level, K_line} THEN "num" ELSE "str"

\* AssignFields whose case "file" was copied from case "facility" and kept
\* its key.
AssignFields_FileFromFacility(m, r) ==
    LET i == r.map
        get(k, old) == IF k \in DOMAIN i THEN i[k] ELSE old
    IN  IF r.err THEN [kind |-> "err", m |-> m]
        ELSE IF \/ <<>> \in DOMAIN i
                \/ \E k \in DOMAIN i \cap FixedKeySet : i[k].t # AssertedType(k)
             THEN [kind |-> "panic", m |-> m]
        ELSE [kind |-> "ok",
              m |-> [Version  |-> get(K_version, StrV(m.Version)).s,
                     Host     |-> get(K_host, StrV(m.Host)).s,
                     Short    |-> get(K_short_message, StrV(m.Short)).s,
                     Full     |-> get(K_full_message, StrV(m.Full)).s,
                     TimeUnix |-> get(K_timestamp, NumV(m.TimeUnix)).n,
                     Level    |-> IF K_level \in DOMAIN i
                                  THEN TruncInt(i[K_level].n) ELSE m.Level,
                     Facility |-> get(K_facility, StrV(m.Facility)).s,
                     File     |-> get(K_facility, StrV(m.File)).s,
                     Line     |-> IF K_line \in DOMAIN i
                                  THEN TruncInt(i[K_line].n) ELSE m.Line,
                     Extra    |-> [k \in DOMAIN m.Extra
                                         \cup {y \in DOMAIN i : BBytes(y)[1] = 95} |->
                                     IF k \in DOMAIN i THEN i[k] ELSE m.Extra[k]]]]

\* Message.UnmarshalJSON after r = json.Unmarshal(data, &i), on the message
\* m: "err" is the error of json.Unmarshal, "panic" a failed type assertion
\* or the index k[0] of an empty key, "ok" the message after the loop over
\* the parsed map.
AssignFields(m, r) ==
    LET i == r.map
        get(k, old) == IF k \in DOMAIN i THEN i[k] ELSE old
    IN  IF r.err THEN [kind |-> "err", m |-> m]
        ELSE IF \/ <<>> \in DOMAIN i
                \/ \E k \in DOMAIN i \cap FixedKeySet : i[k].t # AssertedType(k)
             THEN [kind |-> "panic", m |-> m]
        ELSE [kind |-> "ok",
              m |-> [Version  |-> get(K_version, StrV(m.Version)).s,
                     Host     |-> get(K_host, StrV(m.Host)).s,
                     Short    |-> get(K_short_message, StrV(m.Short)).s,
                     Full     |-> get(K_full_message, StrV(m.Full)).s,
                     TimeUnix |-> get(K_timestamp, NumV(m.TimeUnix)).n,
                     Level    |-> IF K_level \in DOMAIN i
                                  THEN TruncInt(i[K_level].n) ELSE m.Level,
                     Facility |-> get(K_facility, StrV(m.Facility)).s,
                     File     |-> get(K_file, StrV(m.File)).s,
                     Line     |-> IF K_line \in DOMAIN i
                                  THEN TruncInt(i[K_line].n) ELSE m.Line,
                     Extra    |-> [k \in DOMAIN m.Extra
                                         \cup {y \in DOMAIN i : BBytes(y)[1] = 95} |->
                                     IF k \in DOMAIN i THEN i[k] ELSE m.Extra[k]]]]

\* Message.UnmarshalJSON(data) on the message m.
UnmarshalJSON(m, data) == AssignFields(m, Unmarshal(data))

(***************************************************************************)
(* The UDP transport: constants and pure helpers                           *)
(***************************************************************************)
ChunkSize        == 1420
chunkedHeaderLen == 12

\* chunkedDataLen without the header taken off.
chunkedDataLen_NoHeader == ChunkSize

chunkedDataLen   == ChunkSize - chunkedHeaderLen

magicChunked == <<30, 15>>
magicZlib    == <<120>>
magicGzip    == <<31, 139>>

CompressGzip == 0
CompressZlib == 1
NoCompress   == 2

\* compress/flate: BestSpeed, and the levels NewWriterLevel accepts
\* (HuffmanOnly .. BestCompression).
BestSpeed       == 1
HuffmanOnly     == -2
BestCompression == 9

\* numChunks without the + 1.
numChunks_Floor(b) ==
    LET lenB == BLen(b)
    IN  IF lenB <= ChunkSize THEN 1 ELSE BLen(b) \div chunkedDataLen

\* numChunks with the single-datagram limit compared by < instead of <=.
numChunks_Strict(b) ==
    LET lenB == BLen(b)
    IN  IF lenB < ChunkSize THEN 1 ELSE BLen(b) \div chunkedDataLen + 1

\* numChunks: the number of GELF chunks the code computes for a buffer.
numChunks(b) ==
    LET lenB == BLen(b)
    IN  IF lenB <= ChunkSize THEN 1 ELSE BLen(b) \div chunkedDataLen + 1

\* gzip.NewWriterLevel / zlib.NewWriterLevel: the level is checked.
LevelValid(level) == level >= HuffmanOnly /\ level <= BestCompression

\* zw.Write(mBytes); zw.Close(); zBuf.Bytes().  bufferedWriter copies the
\* bytes.  A gzip or zlib stream is its magic, a header byte set from the
\* level, and the deflate body, kept here in its stored (uncompressed) form:
\* the transport reads nothing of zBytes but its length and its bytes.
Compress(t, level, mBytes) ==
    CASE t = CompressGzip -> BCat(Lit(magicGzip \o <<level % 256>>), mBytes)
      [] t = CompressZlib -> BCat(Lit(magicZlib \o <<level % 256>>), mBytes)
      [] OTHER            -> mBytes

\* uint8(n).
Uint8(n) == n % 256

Min(a, b) == IF a < b THEN a ELSE b

\* ChunkBuf with every chunk sliced from the start of zBytes.
ChunkBuf_NoOffset(zBytes, msgId, i, nChunks, bytesLeft) ==
    LET chunkLen == Min(chunkedDataLen, bytesLeft)
    IN  BCat(Lit(magicChunked \o msgId \o <<i>> \o <<nChunks>>),
             BSlice(zBytes, 0, chunkLen))

\* ChunkBuf with the two header bytes after the id written in the other order.
ChunkBuf_Swapped(zBytes, msgId, i, nChunks, bytesLeft) ==
    LET chunkLen == Min(chunkedDataLen, bytesLeft)
        off      == i * chunkedDataLen
    IN  BCat(Lit(magicChunked \o msgId \o <<nChunks>> \o <<i>>),
             BSlice(zBytes, off, chunkLen))

\* The buffer writeChunked builds for chunk i: the header written byte by
\* byte, then zBytes[off : off+chunkLen].
ChunkBuf(zBytes, msgId, i, nChunks, bytesLeft) ==
    LET chunkLen == Min(chunkedDataLen, bytesLeft)
        off      == i * chunkedDataLen
    IN  BCat(Lit(magicChunked \o msgId \o <<i>> \o <<nChunks>>),
             BSlice(zBytes, off, chunkLen))

(***************************************************************************)
(* Inputs and bounds                                                       *)
(***************************************************************************)
\* The goroutines that share the Writer.
Callers == {1, 2}

\* WriteMessage calls made in one behaviour of SpecConc.
MaxCalls == 2

\* Assignments to Writer.CompressionType / CompressionLevel by the program
\* in one behaviour of SpecConc.
MaxCfgChanges == 2

\* Distinct values the random source delivers as a message id.
NumMsgIds == 2

\* Payloads of k full chunks, one byte less and one byte more, k up to this.
MaxFullChunks == 3

\* A message as Writer.Write builds it, with the given full text and extras.
GelfMessage(full, extra) ==
    [Version |-> Lit(<<49, 46, 48>>), Host |-> Lit(<<104>>), Short |-> Lit(<<115>>),
     Full |-> full, TimeUnix |-> 1500, Level |-> 6, Facility |-> Lit(<<102>>),
     File |-> Lit(<<120>>), Line |-> 12, Extra |-> extra]

\* The callers' messages are named by the length of their full text and
\* their extras: Message(d) is the message a caller passes (by pointer).
Message(d) == GelfMessage(Text(1, d.full), d.extra)

\* Names the message without extras whose JSON encoding is size bytes long.
OfSize(size) ==
    [full |-> size - BLen(MarshalInner(GelfMessage(<<>>, <<>>))), extra |-> <<>>]

K_id == Lit(<<95, 105, 100>>)

\* JSON sizes sent in Spec: around the single-datagram limit, around whole
\* multiples of the chunk payload, and around the 255-chunk limit.
Sizes ==
    {500, ChunkSize - 3, ChunkSize - 2, ChunkSize, ChunkSize + 1, 3000,
     255 * chunkedDataLen - 2, 255 * chunkedDataLen,
     255 * chunkedDataLen + 1}
    \cup { k * chunkedDataLen + d : k \in 2..MaxFullChunks, d \in {-3, -1, 0, 1} }

Messages ==
    { OfSize(n) : n \in Sizes }
    \cup { [full |-> 0, extra |-> K_id :> StrV(Lit(<<55>>))],
           [full |-> 0, extra |-> K_id :> ChanV] }

\* The messages sent in SpecConc.
ConcMessages ==
    { OfSize(n) : n \in {500, ChunkSize + 1} }

\* Writer.CompressionType is an int: any value can be assigned.
CompressTypes == {CompressGzip, CompressZlib, NoCompress, 3}

CompressLevels == {BestSpeed, BestCompression, BestCompression + 1}

\* The settings of <<CompressionType, CompressionLevel>> a call of Spec
\* starts with.
Configs ==
    {<<CompressGzip, BestSpeed>>, <<CompressGzip, BestCompression>>,
     <<CompressGzip, BestCompression + 1>>, <<CompressZlib, BestSpeed>>,
     <<NoCompress, BestSpeed>>, <<3, BestSpeed>>}

\* io.ReadFull(rand.Reader, msgId): eight bytes, or an error.
RandResults ==
    { [ok |-> TRUE, id |-> [j \in 1..8 |-> 16 * b + j]] : b \in 1..NumMsgIds }
    \cup { [ok |-> FALSE, id |-> <<>>] }

\* conn.Write(buf): all bytes written, an error, or fewer bytes and no error.
WriteResults == {"ok", "err", "short"}

(***************************************************************************)
(* State                                                                   *)
(***************************************************************************)
VARIABLES
    CompressionType,    \* Writer.CompressionType
    CompressionLevel,   \* Writer.CompressionLevel
    mu,                 \* Writer.mu: TRUE while held
    wire,               \* conn: the Write calls made on the socket, in order
    fr,                 \* per caller, the frame of udpTransport.WriteMessage
    nCalls,             \* WriteMessage calls started
    cfgChanges,         \* assignments made to the Writer's options
    cfgLog              \* the options <<type, level>> the Writer has held, in order

VARIABLES
    cm,                 \* codec: the message given to MarshalJSON
    cEnc,               \* codec: what MarshalJSON returned
    cDec,               \* codec: what UnmarshalJSON did with those bytes
    cpc,                \* codec: "new", "encoded", "decoded" or "parsed"
    cData               \* codec: the bytes given to UnmarshalJSON

VARIABLES
    hVersion,           \* HTTP: which of the two WriteMessage bodies is built
    hCalls,             \* HTTP: WriteMessage calls made
    hOpen,              \* HTTP: response bodies received and not closed
    hLast,              \* HTTP: the last call: its POST, its Close calls, its result
    hBody               \* HTTP: the request body of the last POST

VARIABLES
    wp,                 \* Write: the bytes p given to Writer.Write
    wm,                 \* Write: the Message it built
    wret,               \* Write: its results n and err
    wpc                 \* Write: "new", "sent", "returned" or "panicked"

udpVars   == <<CompressionType, CompressionLevel, mu, wire, fr, nCalls, cfgChanges,
               cfgLog>>
codecVars == <<cm, cEnc, cDec, cpc, cData>>
httpVars  == <<hVersion, hCalls, hOpen, hLast, hBody>>

writeVars == <<wp, wm, wret, wpc>>

vars == <<udpVars, codecVars, httpVars, writeVars>>

\* A caller outside WriteMessage.
IdleFrame ==
    [pc |-> "idle", id |-> 0, m |-> [full |-> 0, extra |-> <<>>], mBytes |-> <<>>, ctype |-> 0,
     level |-> 0, zBytes |-> <<>>, nChunks |-> 0, msgId |-> <<>>, i |-> 0,
     bytesLeft |-> 0, shown |-> 0, ret |-> "", cfgAtType |-> 0, cfgAtLevel |-> 0]

\* No codec operation applied.
CodecIdle ==
    /\ cm = ZeroMessage
    /\ cEnc = [err |-> FALSE, b |-> <<>>]
    /\ cDec = [kind |-> "none", m |-> ZeroMessage]
    /\ cpc = "new"
    /\ cData = <<>>

\* No HTTP call made.
HttpIdle ==
    /\ hCalls = 0
    /\ hOpen = 0
    /\ hLast = [posted |-> FALSE, post |-> "none", closes |-> 0, ret |-> "none"]
    /\ hBody = <<>>

\* Writer.Write not called.
WriteIdle ==
    /\ wp = <<>>
    /\ wm = ZeroMessage
    /\ wret = [n |-> 0, err |-> ""]
    /\ wpc = "new"

\* return: the call ends with the given result.
Return(f, ret) == [f EXCEPT !.pc = "done", !.ret = ret]

(***************************************************************************)
(* NewWriter: the options as constructed, no call made.                    *)
(***************************************************************************)
\* A connection nothing was written to, and no call running.
NoCalls ==
    /\ mu = FALSE
    /\ wire = <<>>
    /\ fr = [c \in Callers |-> IdleFrame]
    /\ nCalls = 0
    /\ cfgChanges = 0
    /\ cfgLog = <<<<CompressionType, CompressionLevel>>>>

NewWriter ==
    /\ CompressionType = CompressGzip
    /\ CompressionLevel = BestSpeed
    /\ NoCalls

\* w.CompressionType = t, by the program that owns the Writer.
SetCompressionType(t) ==
    /\ cfgChanges < MaxCfgChanges
    /\ t # CompressionType
    /\ CompressionType' = t
    /\ cfgChanges' = cfgChanges + 1
    /\ cfgLog' = Append(cfgLog, <<t, CompressionLevel>>)
    /\ UNCHANGED <<CompressionLevel, mu, wire, fr, nCalls, codecVars, httpVars, writeVars>>

\* w.CompressionLevel = l.
SetCompressionLevel(l) ==
    /\ cfgChanges < MaxCfgChanges
    /\ l # CompressionLevel
    /\ CompressionLevel' = l
    /\ cfgChanges' = cfgChanges + 1
    /\ cfgLog' = Append(cfgLog, <<CompressionType, l>>)
    /\ UNCHANGED <<CompressionType, mu, wire, fr, nCalls, codecVars, httpVars, writeVars>>

(***************************************************************************)
(* Writer.WriteMessage -> udpTransport.WriteMessage                        *)
(***************************************************************************)
\* The call and json.Marshal(m).  Writer.WriteMessage takes no lock.
WriteMessage(c, m, limit) ==
    /\ fr[c].pc \in {"idle", "done"}
    /\ nCalls < limit
    /\ nCalls' = nCalls + 1
    /\ LET j == MarshalJSON(Message(m))
           f == [IdleFrame EXCEPT !.id = nCalls + 1, !.m = m]
       IN  fr' = [fr EXCEPT ![c] =
                     IF j.err THEN Return(f, "json")
                     ELSE [f EXCEPT !.pc = "switch", !.mBytes = j.b]]
    /\ UNCHANGED <<CompressionType, CompressionLevel, mu, wire, cfgChanges, cfgLog,
                   codecVars, httpVars, writeVars>>

\* writeChunkedEntry that admits 256 chunks.
writeChunkedEntry_Limit256(f, zBytes, rnd) ==
    LET nChunksI == numChunks(zBytes)
    IN  IF nChunksI > 256 THEN Return([f EXCEPT !.zBytes = zBytes], "too large")
        ELSE IF ~rnd.ok THEN Return([f EXCEPT !.zBytes = zBytes], "rand")
        ELSE [f EXCEPT !.pc = "chunk", !.zBytes = zBytes,
                       !.nChunks = Uint8(nChunksI), !.msgId = rnd.id,
                       !.i = 0, !.bytesLeft = BLen(zBytes)]

\* writeChunked up to the loop: the chunk count and the message id.
writeChunkedEntry(f, zBytes, rnd) ==
    LET nChunksI == numChunks(zBytes)
    IN  IF nChunksI > 255 THEN Return([f EXCEPT !.zBytes = zBytes], "too large")
        ELSE IF ~rnd.ok THEN Return([f EXCEPT !.zBytes = zBytes], "rand")
        ELSE [f EXCEPT !.pc = "chunk", !.zBytes = zBytes,
                       !.nChunks = Uint8(nChunksI), !.msgId = rnd.id,
                       !.i = 0, !.bytesLeft = BLen(zBytes)]

\* From zw.Write(mBytes) to the choice of the path.
Compressed(f, level, rnd) ==
    LET zBytes == Compress(f.ctype, level, f.mBytes)
        g      == [f EXCEPT !.level = level]
    IN  IF numChunks(zBytes) > 1
        THEN writeChunkedEntry(g, zBytes, rnd)
        ELSE [g EXCEPT !.pc = "write", !.zBytes = zBytes]

\* SwitchType whose default branch goes on without compression.
SwitchType_DefaultNoCompress(c) ==
    /\ fr[c].pc = "switch"
    /\ \E rnd \in RandResults :
         LET f == [fr[c] EXCEPT !.ctype = CompressionType,
                                !.cfgAtType = Len(cfgLog), !.cfgAtLevel = Len(cfgLog)]
         IN  fr' = [fr EXCEPT ![c] =
                       CASE f.ctype \in {CompressGzip, CompressZlib} ->
                                [f EXCEPT !.pc = "level"]
                         [] OTHER -> Compressed(f, 0, rnd)]
    /\ UNCHANGED <<CompressionType, CompressionLevel, mu, wire, nCalls, cfgChanges, cfgLog,
                   codecVars, httpVars, writeVars>>

\* switch w.compressionType(): the option is read from the Writer now.
SwitchType(c) ==
    /\ fr[c].pc = "switch"
    /\ \E rnd \in RandResults :
         LET f == [fr[c] EXCEPT !.ctype = CompressionType,
                                !.cfgAtType = Len(cfgLog), !.cfgAtLevel = Len(cfgLog)]
         IN  fr' = [fr EXCEPT ![c] =
                       CASE f.ctype \in {CompressGzip, CompressZlib} ->
                                [f EXCEPT !.pc = "level"]
                         [] f.ctype = NoCompress -> Compressed(f, 0, rnd)
                         [] OTHER -> [f EXCEPT !.pc = "default"]]
    /\ UNCHANGED <<CompressionType, CompressionLevel, mu, wire, nCalls, cfgChanges, cfgLog,
                   codecVars, httpVars, writeVars>>

\* default: panic(fmt.Sprintf(..., w.compressionType())): the option is read
\* a second time, for the panic's text.
PanicUnknownType(c) ==
    /\ fr[c].pc = "default"
    /\ fr' = [fr EXCEPT ![c] =
                 [@ EXCEPT !.pc = "panicked", !.ret = "panic",
                           !.shown = CompressionType, !.cfgAtLevel = Len(cfgLog)]]
    /\ UNCHANGED <<CompressionType, CompressionLevel, mu, wire, nCalls, cfgChanges, cfgLog,
                   codecVars, httpVars, writeVars>>

\* NewWriterLevel(&zBuf, w.compressionLevel()): the level is read now.
ReadLevel(c) ==
    /\ fr[c].pc = "level"
    /\ \E rnd \in RandResults :
         LET f == [fr[c] EXCEPT !.cfgAtLevel = Len(cfgLog)]
         IN  fr' = [fr EXCEPT ![c] =
                       IF LevelValid(CompressionLevel)
                       THEN Compressed(f, CompressionLevel, rnd)
                       ELSE Return([f EXCEPT !.level = CompressionLevel], "level")]
    /\ UNCHANGED <<CompressionType, CompressionLevel, mu, wire, nCalls, cfgChanges, cfgLog,
                   codecVars, httpVars, writeVars>>

\* WriteMessage after n, err := w.conn.Write(zBytes).
AfterWrite(f, r) ==
    CASE r = "err"   -> Return(f, "write")
      [] r = "short" -> Return(f, "bad write")
      [] OTHER       -> Return(f, "nil")

\* The single datagram: n, err := w.conn.Write(zBytes).
WriteSingle(c) ==
    /\ fr[c].pc = "write"
    /\ \E r \in WriteResults :
         /\ wire' = Append(wire, [call |-> fr[c].id, buf |-> fr[c].zBytes, res |-> r])
         /\ fr' = [fr EXCEPT ![c] = AfterWrite(@, r)]
    /\ UNCHANGED <<CompressionType, CompressionLevel, mu, nCalls, cfgChanges, cfgLog,
                   codecVars, httpVars, writeVars>>

\* AfterChunkWrite without the check n != len(buf.Bytes()).
AfterChunkWrite_NoLenCheck(f, r) ==
    LET chunkLen == Min(chunkedDataLen, f.bytesLeft)
        g        == [f EXCEPT !.bytesLeft = f.bytesLeft - chunkLen,
                              !.i = Uint8(f.i + 1)]
    IN  CASE r = "err" -> Return(f, "write chunk")
          [] OTHER     -> IF g.i < g.nChunks THEN g
                          ELSE IF g.bytesLeft # 0 THEN Return(g, "bytes left")
                          ELSE Return(g, "nil")

\* writeChunked after n, err := w.conn.Write(buf.Bytes()) of chunk f.i: the
\* two checks, bytesLeft -= chunkLen, i++ and, past the last chunk, the
\* check of bytesLeft.
AfterChunkWrite(f, r) ==
    LET chunkLen == Min(chunkedDataLen, f.bytesLeft)
        g        == [f EXCEPT !.bytesLeft = f.bytesLeft - chunkLen,
                              !.i = Uint8(f.i + 1)]
    IN  CASE r = "err"   -> Return(f, "write chunk")
          [] r = "short" -> Return(f, "write len")
          [] OTHER       -> IF g.i < g.nChunks THEN g
                            ELSE IF g.bytesLeft # 0 THEN Return(g, "bytes left")
                            ELSE Return(g, "nil")

\* One iteration of writeChunked's loop, and the loop's exit after the last.
WriteChunk(c) ==
    /\ fr[c].pc = "chunk"
    /\ LET f        == fr[c]
           chunkLen == Min(chunkedDataLen, f.bytesLeft)
           off      == f.i * chunkedDataLen
       IN  IF off > BLen(f.zBytes) \/ off + chunkLen > BLen(f.zBytes) \/ chunkLen < 0
           THEN \* zBytes[off : off+chunkLen] out of range
                /\ fr' = [fr EXCEPT ![c] =
                             [@ EXCEPT !.pc = "panicked", !.ret = "panic slice"]]
                /\ wire' = wire
           ELSE \E r \in WriteResults :
                /\ wire' = Append(wire,
                      [call |-> f.id,
                       buf  |-> ChunkBuf(f.zBytes, f.msgId, f.i, f.nChunks, f.bytesLeft),
                       res  |-> r])
                /\ fr' = [fr EXCEPT ![c] = AfterChunkWrite(f, r)]
    /\ UNCHANGED <<CompressionType, CompressionLevel, mu, nCalls, cfgChanges, cfgLog,
                   codecVars, httpVars, writeVars>>

\* The steps of a call that has started.
Step(c) ==
    \/ SwitchType(c)
    \/ PanicUnknownType(c)
    \/ ReadLevel(c)
    \/ WriteSingle(c)
    \/ WriteChunk(c)

(***************************************************************************)
(* Spec: one caller, one call, with the options as set before the call.    *)
(***************************************************************************)
Init ==
    /\ \E cfg \in Configs : CompressionType = cfg[1] /\ CompressionLevel = cfg[2]
    /\ NoCalls
    /\ CodecIdle
    /\ HttpIdle /\ hVersion = "udp"
    /\ WriteIdle

Send == \E m \in Messages : WriteMessage(1, m, 1)

Next == Send \/ Step(1)

Spec == Init /\ [][Next]_vars

(***************************************************************************)
(* SpecConc: concurrent callers of one Writer whose options the program    *)
(* may change while calls run.                                             *)
(***************************************************************************)
SendConc == \E c \in Callers, m \in ConcMessages : WriteMessage(c, m, MaxCalls)

SetOption ==
    \/ \E t \in CompressTypes : SetCompressionType(t)
    \/ \E l \in CompressLevels : SetCompressionLevel(l)

NextConc == SendConc \/ SetOption \/ \E c \in Callers : Step(c)

InitConc ==
    /\ NewWriter
    /\ CodecIdle
    /\ HttpIdle /\ hVersion = "udp"
    /\ WriteIdle

SpecConc == InitConc /\ [][NextConc]_vars

(***************************************************************************)
(* SpecCodec: MarshalJSON applied to a message, UnmarshalJSON to the bytes *)
(***************************************************************************)
\* Keys of one Extra map.
MaxExtra == 2

K_n   == Lit(<<95, 110>>)
K_foo == Lit(<<102, 111, 111>>)

\* Extra keys: with and without the '_', two that are json tags of Message,
\* and the empty string.
ExtraKeys == {K_id, K_n, K_foo, K_host, K_level, <<>>}

ExtraValues ==
    {StrV(Lit(<<55>>)), NumV(1500), NumV(-2000), BoolV(FALSE), NullV, ChanV}

ExtraMaps ==
    UNION { [S -> ExtraValues] :
                S \in {T \in SUBSET ExtraKeys : Cardinality(T) <= MaxExtra} }

\* Contents of the string fields.
FieldStrings ==
    {<<>>,
     Lit(<<104, 105>>),   \* hi
     Lit(<<97, 34, 98>>),   \* a"b
     Lit(<<120, 10, 121>>),   \* x, newline, y
     Lit(<<92>>),   \* a backslash
     Lit(<<60, 38, 62>>),   \* <&>
     Lit(<<195, 169>>),   \* e acute, two bytes
     Lit(<<255>>),   \* the byte 0xFF
     Lit(<<97, 195>>)}   \* a, then a lead byte alone

\* Messages without extras that differ in their fixed fields.
FixedMessages ==
    { [Version |-> Lit(<<49, 46, 48>>), Host |-> s, Short |-> s, Full |-> t,
       TimeUnix |-> ts, Level |-> lv, Facility |-> t, File |-> s, Line |-> ln,
       Extra |-> <<>>] :
         s \in FieldStrings, t \in {<<>>, Lit(<<120, 10, 121>>)},
         ts \in {0, 1234567}, lv \in {-1, 6}, ln \in {0, 12} }

\* The zero Message is the one at hand when JSON from elsewhere is decoded.
CodecMessages ==
    { GelfMessage(Lit(<<104, 105>>), e) : e \in ExtraMaps }
    \cup FixedMessages \cup {ZeroMessage}

InitCodec ==
    /\ cm \in CodecMessages
    /\ cEnc = [err |-> FALSE, b |-> <<>>]
    /\ cDec = [kind |-> "none", m |-> ZeroMessage]
    /\ cpc = "new"
    /\ cData = <<>>
    /\ NewWriter
    /\ HttpIdle /\ hVersion = "udp"
    /\ WriteIdle

\* json.Marshal(&cm).
Encode ==
    /\ cpc = "new"
    /\ cEnc' = MarshalJSON(cm)
    /\ cpc' = "encoded"
    /\ UNCHANGED <<cm, cDec, cData, udpVars, httpVars, writeVars>>

\* json.Unmarshal(bytes, &m) with m a new Message.
Decode ==
    /\ cpc = "encoded"
    /\ ~cEnc.err
    /\ cData' = cEnc.b
    /\ cDec' = UnmarshalJSON(ZeroMessage, cEnc.b)
    /\ cpc' = "decoded"
    /\ UNCHANGED <<cm, cEnc, udpVars, httpVars, writeVars>>

\* JSON texts from elsewhere given to json.Unmarshal(data, &m): ill-typed
\* fixed fields, malformed texts, and well-formed ones.
DecodeInputs ==
    {
     Lit(<<123, 34, 104, 111, 115, 116, 34, 58, 53, 125>>),   \* {"host":5}
     Lit(<<123, 34, 108, 101, 118, 101, 108, 34, 58, 34, 120, 34, 125>>),   \* {"level":"x"}
     Lit(<<123, 34, 108, 105, 110, 101, 34, 58, 110, 117, 108, 108, 125>>),   \* {"line":null}
     Lit(<<123, 34, 104, 111, 115, 116, 34, 58, 34, 97, 34>>),   \* {"host":"a"
     Lit(<<123, 34, 104, 111, 115, 116, 34, 58, 125>>),   \* {"host":}
     Lit(<<104, 101, 108, 108, 111>>),   \* hello
     Lit(<<123, 34, 108, 101, 118, 101, 108, 34, 58, 50, 46, 53, 125>>),   \* {"level":2.5}
     Lit(<<123, 34, 104, 111, 115, 116, 34, 58, 34, 97, 34, 44, 34, 108, 101, 118, 101, 108, 34, 58, 51, 125>>),   \* {"host":"a","level":3}
     Lit(<<123, 34, 95, 105, 100, 34, 58, 55, 44, 34, 102, 111, 111, 34, 58, 116, 114, 117, 101, 125>>),   \* {"_id":7,"foo":true}
     Lit(<<123, 34, 34, 58, 49, 125>>),   \* {"":1}
     Lit(<<123, 125>>),   \* {}
     Lit(<<123, 34, 116, 105, 109, 101, 115, 116, 97, 109, 112, 34, 58, 34, 49, 46, 53, 34, 44, 34, 118, 101, 114, 115, 105, 111, 110, 34, 58, 34, 49, 46, 48, 34, 125>>)    \* {"timestamp":"1.5","version":"1.0"}
    }

\* json.Unmarshal(data, &m) with m a new Message and data not of MarshalJSON.
DecodeInput ==
    /\ cpc = "new"
    /\ cm = ZeroMessage
    /\ \E data \in DecodeInputs :
         /\ cData' = data
         /\ cDec' = UnmarshalJSON(ZeroMessage, data)
    /\ cpc' = "parsed"
    /\ UNCHANGED <<cm, cEnc, udpVars, httpVars, writeVars>>

NextCodec == Encode \/ Decode \/ DecodeInput

SpecCodec == InitCodec /\ [][NextCodec]_vars

(***************************************************************************)
(* SpecHTTP: httpTransport.WriteMessage.  The sources hold two bodies of   *)
(* it: one closes the response body right after the Post, one drops the    *)
(* response.                                                               *)
(***************************************************************************)
\* WriteMessage calls in one behaviour of SpecHTTP.
MaxHttpCalls == 3

\* w.client.Post: a response with some status, or an error and no response.
PostResults == {"200", "500", "error"}

HttpMessages ==
    {OfSize(500), OfSize(1420), OfSize(3000),
     [full |-> 0, extra |-> K_id :> StrV(Lit(<<55>>))],
     [full |-> 0, extra |-> K_id :> ChanV]}

\* http_transport.go, after the Post: response.Body.Close(), then return err.
\* With an error there is no response: response.Body dereferences nil.
httpWriteMessage(post) ==
    IF post = "error"
    THEN [posted |-> TRUE, post |-> post, closes |-> 0, ret |-> "panic"]
    ELSE [posted |-> TRUE, post |-> post, closes |-> 1, ret |-> "nil"]

\* The other body, after the Post: _, err = w.client.Post(...); return err.
httpWriteMessage_part000(post) ==
    [posted |-> TRUE, post |-> post, closes |-> 0,
     ret |-> IF post = "error" THEN "error" ELSE "nil"]

HttpWriteMessage(m, post) ==
    /\ hCalls < MaxHttpCalls
    /\ hCalls' = hCalls + 1
    /\ LET j == MarshalJSON(Message(m))
           r == IF j.err
                THEN [posted |-> FALSE, post |-> "none", closes |-> 0, ret |-> "json"]
                ELSE IF hVersion = "http_transport.go" THEN httpWriteMessage(post)
                ELSE httpWriteMessage_part000(post)
       IN  /\ hLast' = r
           /\ hBody' = IF r.posted THEN j.b ELSE <<>>
           /\ hOpen' = IF r.posted /\ post # "error"
                       THEN hOpen + 1 - r.closes ELSE hOpen
    /\ UNCHANGED <<hVersion, udpVars, codecVars, writeVars>>

InitHTTP ==
    /\ hVersion \in {"http_transport.go", "part_000"}
    /\ HttpIdle
    /\ NewWriter
    /\ CodecIdle
    /\ WriteIdle

NextHTTP == \E m \in HttpMessages, post \in PostResults : HttpWriteMessage(m, post)

SpecHTTP == InitHTTP /\ [][NextHTTP]_vars

(***************************************************************************)
(* What the claims speak of                                                *)
(***************************************************************************)
\* The Write calls of one WriteMessage call, in the order made.
CallWrites(id) == SelectSeq(wire, LAMBDA w : w.call = id)

\* The fields of a chunk datagram.
Magic(buf)         == BBytes(BSlice(buf, 0, 2))
MessageId(buf)     == BBytes(BSlice(buf, 2, 8))
SequenceIndex(buf) == BBytes(BSlice(buf, 10, 1))[1]
TotalChunks(buf)   == BBytes(BSlice(buf, 11, 1))[1]
Payload(buf)       == BDrop(buf, chunkedHeaderLen)

\* The call of frame f took the chunked path and passed its entry checks.
Chunking(f) == f.pc \in {"chunk", "done"} /\ f.msgId # <<>>

\* The call of frame f sent a chunked message without error.
SentChunked(f) == f.pc = "done" /\ f.ret = "nil" /\ f.msgId # <<>>

\* ceil(a / b).
CeilDiv(a, b) == (a + b - 1) \div b

RECURSIVE ConcatPayloads(_, _)
\* The payloads of the datagrams ws[j..], concatenated.
ConcatPayloads(ws, j) ==
    IF j > Len(ws) THEN <<>>
    ELSE BCat(Payload(ws[j].buf), ConcatPayloads(ws, j + 1))

RECURSIVE ConcatByIndex(_, _, _)
\* The payloads of the datagrams ws whose sequence index is in lo..hi,
\* concatenated in the order of their sequence indexes.
ConcatByIndex(ws, lo, hi) ==
    IF lo > hi THEN <<>>
    ELSE IF lo = hi
         THEN ConcatPayloads(SelectSeq(ws, LAMBDA w : SequenceIndex(w.buf) = lo), 1)
    ELSE LET mid == (lo + hi) \div 2
         IN  BCat(ConcatByIndex(ws, lo, mid), ConcatByIndex(ws, mid + 1, hi))

\* C1 (stated as claimed): on the wire the datagrams of one WriteMessage call
\* are contiguous: between two Write calls of one call lies no Write of
\* another call.
C1_ChunksContiguous ==
    \A a, b \in 1..Len(wire) :
        (a < b /\ wire[a].call = wire[b].call)
            => \A k \in a..b : wire[k].call = wire[a].call

\* C2: when a chunked message was sent without error, the payload slices of
\* its datagrams, concatenated in sequenceIndex order, are the compressed
\* payload.
C2_PayloadReassembles ==
    \A c \in Callers :
        SentChunked(fr[c])
            => ConcatByIndex(CallWrites(fr[c].id), 0, 255) = fr[c].zBytes

C2_Witness ==
    \E c \in Callers :
        /\ SentChunked(fr[c])
        /\ Len(CallWrites(fr[c].id)) >= 3
        /\ BLen(fr[c].zBytes) % chunkedDataLen # 0

\* C3 (stated as claimed): on the chunked path the chunk count, the
\* totalChunks byte of every header and the number of datagrams of a
\* message sent without error are ceil(L / (ChunkSize - 12)).
C3_ChunkCountIsCeil ==
    \A c \in Callers :
        Chunking(fr[c]) =>
            LET n  == CeilDiv(BLen(fr[c].zBytes), chunkedDataLen)
                ws == CallWrites(fr[c].id)
            IN  /\ fr[c].nChunks = n
                /\ \A k \in 1..Len(ws) : TotalChunks(ws[k].buf) = n
                /\ SentChunked(fr[c]) => Len(ws) = n

\* C4 (stated as claimed): a payload longer than one datagram is refused as
\* too large exactly when it is longer than 255 * (ChunkSize - 12) bytes.
C4_OversizeIffOver255 ==
    \A c \in Callers :
        (fr[c].pc = "done" /\ BLen(fr[c].zBytes) > ChunkSize)
            => (fr[c].ret = "too large"
                    <=> BLen(fr[c].zBytes) > 255 * chunkedDataLen)

\* C5: the datagrams of a chunked message sent without error all start with
\* 0x1e 0x0f, carry one message id and one totalChunks <= 255, and the k-th
\* one written has sequenceIndex k - 1, for k up to totalChunks.
C5_HeadersWellFormed ==
    \A c \in Callers :
        SentChunked(fr[c]) =>
            LET ws == CallWrites(fr[c].id)
            IN  /\ Len(ws) >= 1
                /\ TotalChunks(ws[1].buf) <= 255
                /\ Len(ws) = TotalChunks(ws[1].buf)
                /\ \A k \in 1..Len(ws) :
                     /\ Magic(ws[k].buf) = <<30, 15>>
                     /\ MessageId(ws[k].buf) = MessageId(ws[1].buf)
                     /\ TotalChunks(ws[k].buf) = TotalChunks(ws[1].buf)
                     /\ SequenceIndex(ws[k].buf) = k - 1
                     /\ SequenceIndex(ws[k].buf) < TotalChunks(ws[k].buf)

C5_Witness ==
    \E c \in Callers :
        SentChunked(fr[c]) /\ Len(CallWrites(fr[c].id)) = 255

\* C6: a call that got as far as its write made exactly one Write, of the
\* compressed payload itself, if and only if that payload is at most
\* ChunkSize bytes long; with NoCompress those bytes are the message's JSON;
\* a longer payload goes out, if at all, in datagrams with a chunk header.
C6_SingleIffFits ==
    \A c \in Callers :
        (fr[c].pc = "done" /\ fr[c].ret \notin {"json", "level"}) =>
            LET f  == fr[c]
                ws == CallWrites(f.id)
                single == Len(ws) = 1 /\ ws[1].buf = f.zBytes
            IN  /\ single <=> BLen(f.zBytes) <= ChunkSize
                /\ (single /\ f.ctype = NoCompress)
                       => ws[1].buf = MarshalJSON(Message(f.m)).b
                /\ ~single => ( /\ f.ret = "nil" => Len(ws) >= 2
                                /\ \A k \in 1..Len(ws) :
                                     /\ Magic(ws[k].buf) = magicChunked
                                     /\ Payload(ws[k].buf) # f.zBytes )

C6_Witness ==
    \E c \in Callers :
        /\ fr[c].pc = "done" /\ fr[c].ret = "nil"
        /\ fr[c].ctype = NoCompress
        /\ BLen(fr[c].zBytes) = ChunkSize
        /\ Len(CallWrites(fr[c].id)) = 1

\* C7: a Write that fails or comes up short is the last Write of its call
\* and the call returns an error; the Writes of a call on the chunked path
\* are its chunks 0, 1, ... in order, none written twice.
C7_FailedWriteEndsCall ==
    \A c \in Callers :
        LET f  == fr[c]
            ws == CallWrites(f.id)
        IN  /\ \A k \in 1..Len(ws) :
                 ws[k].res # "ok" =>
                     /\ k = Len(ws)
                     /\ f.pc = "done"
                     /\ f.ret \in {"write", "bad write", "write chunk", "write len"}
            /\ f.msgId # <<>> =>
                 \A k \in 1..Len(ws) :
                     ws[k].buf = ChunkBuf(f.zBytes, f.msgId, k - 1, f.nChunks,
                                          BLen(f.zBytes) - (k - 1) * chunkedDataLen)
            /\ f.msgId = <<>> => Len(ws) <= 1

C7_Witness ==
    \E c \in Callers :
        LET ws == CallWrites(fr[c].id)
        IN  /\ fr[c].pc = "done"
            /\ Len(ws) = 2
            /\ ws[2].res = "short"
            /\ fr[c].nChunks = 3

(***************************************************************************)
(* The HTTP transport and the codec                                        *)
(***************************************************************************)
\* C8 (stated as claimed): a WriteMessage call of the HTTP transport that
\* issued the POST closed the response body exactly once, whether the POST
\* gave a response or an error.
C8_BodyClosedOnce == hLast.posted => hLast.closes = 1

RECURSIVE MemberKeys(_, _)
\* The keys of the members of the JSON object data, from index p on, in
\* the order written, repeated keys repeated.
MemberKeys(data, p) ==
    LET k == ParseString(data, p)
        v == ParseValue(data, k.next + 1)
    IN  IF ~k.ok \/ ~v.ok \/ v.next > Len(data) THEN <<>>
        ELSE <<k.v.s>> \o (IF data[v.next] = 44 THEN MemberKeys(data, v.next + 1)
                           ELSE <<>>)

\* How often key k is a top-level key of the JSON object b.
KeyCount(b, k) ==
    LET ks == MemberKeys(BBytes(b), 2)
    IN  Cardinality({ j \in 1..Len(ks) : ks[j] = k })

\* C9 (stated as claimed): in the JSON object MarshalJSON returns, each of
\* the nine fixed keys is a top-level key exactly once and every extension
\* key is a top-level key, whatever the extension keys are.
C9_FixedKeysOnce ==
    (cpc # "new" /\ ~cEnc.err) =>
        /\ \A k \in FixedKeySet : KeyCount(cEnc.b, k) = 1
        /\ \A k \in DOMAIN cm.Extra : KeyCount(cEnc.b, k) >= 1

\* C10 (stated as claimed): when no extension key is a fixed-field name,
\* decoding the encoding gives a message whose Extra is the extension mapping.
C10_ExtrasRoundTrip ==
    (cpc = "decoded" /\ DOMAIN cm.Extra \cap FixedKeySet = {})
        => (cDec.kind = "ok" /\ cDec.m.Extra = cm.Extra)

\* The key begins with '_'.
Underscored(k) == k # <<>> /\ BBytes(k)[1] = 95

\* C10 (amended): when every extension key begins with '_', decoding the
\* encoding gives a message whose Extra is the extension mapping.
C10_UnderscoredExtrasRoundTrip ==
    (cpc = "decoded" /\ \A k \in DOMAIN cm.Extra : Underscored(k))
        => (cDec.kind = "ok" /\ cDec.m.Extra = cm.Extra)

C10_Witness ==
    /\ cpc = "decoded"
    /\ DOMAIN cm.Extra = {K_id, K_n}
    /\ cm.Extra[K_id] = NumV(-2000)
    /\ cDec.kind = "ok"

(***************************************************************************)
(* Options read by a call while the program changes them                   *)
(***************************************************************************)
\* The call of frame f has made its last read of the Writer's options.
OptionsRead(f) ==
    /\ f.pc \in {"write", "chunk", "done", "panicked"}
    /\ f.ret # "json"

\* The options the call of frame f worked with: the type of its switch and
\* the level it compressed with or, in the default branch, the type it read
\* for the panic's text.
OptionsUsed(f) ==
    IF f.ret = "panic" THEN <<f.ctype, f.shown>> ELSE <<f.ctype, f.level>>

\* The options the Writer held at its v-th setting, as the same call would
\* have read them.
OptionsHeld(f, v) ==
    IF f.ret = "panic" THEN <<cfgLog[v][1], cfgLog[v][1]>>
    ELSE IF f.ctype = NoCompress THEN <<cfgLog[v][1], 0>>
    ELSE cfgLog[v]

\* C11: the compression type and level (or second reading of the type) a
\* UDP WriteMessage call used are the options the Writer held at one moment
\* between the call's first and last read of them, whatever the program
\* assigns to the options meanwhile.
C11_OptionsOneSnapshot ==
    \A c \in Callers :
        OptionsRead(fr[c]) =>
            \E v \in fr[c].cfgAtType .. fr[c].cfgAtLevel :
                OptionsHeld(fr[c], v) = OptionsUsed(fr[c])

(***************************************************************************)
(* An unknown compression type                                             *)
(***************************************************************************)
\* The call of frame f is over: it returned or it panicked.
Over(f) == f.pc \in {"done", "panicked"}

KnownTypes == {CompressGzip, CompressZlib, NoCompress}

\* C12 (stated as claimed): with an option CompressionType that is none of
\* Gzip, Zlib, None, a WriteMessage call writes no datagram and returns an
\* error to its caller.
C12_UnknownTypeReturnsError ==
    \A c \in Callers :
        (Over(fr[c]) /\ CompressionType \notin KnownTypes) =>
            /\ CallWrites(fr[c].id) = <<>>
            /\ fr[c].pc = "done"
            /\ fr[c].ret # "nil"

\* C12 (amended): with an option CompressionType that is none of Gzip, Zlib,
\* None, a WriteMessage call writes no datagram; it returns the error of
\* json.Marshal if that failed, and otherwise it does not return but panics.
C12_UnknownTypePanics ==
    \A c \in Callers :
        (Over(fr[c]) /\ CompressionType \notin KnownTypes) =>
            /\ CallWrites(fr[c].id) = <<>>
            /\ \/ fr[c].pc = "done" /\ fr[c].ret = "json"
               \/ fr[c].pc = "panicked" /\ fr[c].ret = "panic" /\ fr[c].shown = fr[c].ctype

C12_Witness ==
    /\ CompressionType \notin KnownTypes
    /\ fr[1].pc = "panicked"
    /\ fr[1].ctype = CompressionType
    /\ wire = <<>>

(***************************************************************************)
(* Decoding ill-typed and malformed JSON                                   *)
(***************************************************************************)
\* data is not a JSON object, or gives a fixed field a value of another
\* JSON type than the field's.
Undecodable(data) ==
    LET r == Unmarshal(data)
    IN  \/ r.err
        \/ \E k \in DOMAIN r.map \cap FixedKeySet : r.map[k].t # AssertedType(k)

\* C13 (stated as claimed): UnmarshalJSON of malformed JSON, or of an object
\* whose value for a fixed field has the wrong type, returns an error: it
\* neither panics nor returns nil.
C13_BadInputReturnsError ==
    (cpc \in {"parsed", "decoded"} /\ Undecodable(cData)) => cDec.kind = "err"

(***************************************************************************)
(* The result of the HTTP transport's WriteMessage                         *)
(***************************************************************************)
\* C14: a WriteMessage call of the HTTP transport whose POST gave an error
\* returns that error, and one whose POST gave a response returns nil
\* whatever the response's status.
C14_PostErrorReturned ==
    hLast.posted =>
        /\ hLast.post = "error" => hLast.ret = "error"
        /\ hLast.post \in {"200", "500"} => hLast.ret = "nil"

(***************************************************************************)
(* The order of the datagrams of different calls                           *)
(***************************************************************************)
\* C15: the datagrams are written in the order the WriteMessage calls were
\* invoked (calls are numbered as they are invoked): no datagram of a later
\* call is written before a datagram of an earlier call.
C15_WireOrderIsCallOrder ==
    \A p, q \in 1..Len(wire) : p < q => wire[p].call <= wire[q].call

(***************************************************************************)
(* The round trip of the fixed fields                                      *)
(***************************************************************************)
\* C16 (stated as claimed): for a message without extras, decoding its
\* encoding gives a message with the same nine fixed fields and no extras.
C16_FixedFieldsRoundTrip ==
    (cpc = "decoded" /\ DOMAIN cm.Extra = {}) => (cDec.kind = "ok" /\ cDec.m = cm)

RECURSIVE ValidBytes(_, _)
\* s[j..] is UTF-8 text: ASCII and whole two-byte sequences.
ValidBytes(s, j) ==
    IF j > Len(s) THEN TRUE
    ELSE IF s[j] < 128 THEN ValidBytes(s, j + 1)
    ELSE IsLead2(s[j]) /\ j < Len(s) /\ IsCont(s[j + 1]) /\ ValidBytes(s, j + 2)

ValidUTF8(s) == ValidBytes(BBytes(s), 1)

\* C16 (amended): for a message without extras whose string fields are valid
\* UTF-8, decoding its encoding gives a message with the same nine fixed
\* fields and no extras.
C16_ValidFixedFieldsRoundTrip ==
    (/\ cpc = "decoded"
     /\ DOMAIN cm.Extra = {}
     /\ \A s \in {cm.Version, cm.Host, cm.Short, cm.Full, cm.Facility, cm.File} :
            ValidUTF8(s))
        => (cDec.kind = "ok" /\ cDec.m = cm)

C16_Witness ==
    /\ cpc = "decoded"
    /\ DOMAIN cm.Extra = {}
    /\ cm.Host = Lit(<<97, 34, 98>>)
    /\ cm.Full = Lit(<<120, 10, 121>>)
    /\ cm.TimeUnix = 1234567
    /\ cm.Level = -1
    /\ cDec.m = cm

(***************************************************************************)
(* SpecWrite: Writer.Write, the io.Writer over WriteMessage                *)
(***************************************************************************)
\* The longest input drawn from the alphabet below.
MaxInput == 4

RECURSIVE Strings(_, _)
\* The byte sequences over the alphabet of length at most n.
Strings(alphabet, n) ==
    IF n = 0 THEN {<<>>}
    ELSE LET shorter == Strings(alphabet, n - 1)
         IN  shorter \cup { Append(s, b) : s \in shorter, b \in alphabet }

\* The inputs of Write: a letter, a space and a newline in every
\* arrangement, and two log lines.
WriteInputs ==
    Strings({97, 32, 10}, MaxInput)
    \cup {<<104, 101, 108, 108, 111, 10, 119, 111, 114, 108, 100>>,   \* hello\nworld
          <<104, 101, 108, 108, 111>>,                                \* hello
          <<9, 97, 13, 10, 98, 10>>}                                  \* \ta\r\nb\n

\* unicode.IsSpace of an ASCII byte.
IsSpace(b) == b \in {9, 10, 11, 12, 13, 32}

RECURSIVE TrimLeft(_)
TrimLeft(p) == IF p # <<>> /\ IsSpace(p[1]) THEN TrimLeft(Tail(p)) ELSE p

RECURSIVE TrimRight(_)
TrimRight(p) ==
    IF p # <<>> /\ IsSpace(p[Len(p)]) THEN TrimRight(SubSeq(p, 1, Len(p) - 1)) ELSE p

\* bytes.TrimSpace(p).
TrimSpace(p) == TrimRight(TrimLeft(p))

RECURSIVE IndexFrom(_, _, _)
IndexFrom(p, b, j) ==
    IF j > Len(p) THEN -1
    ELSE IF p[j] = b THEN j - 1
    ELSE IndexFrom(p, b, j + 1)

\* bytes.IndexRune(p, r) for an ASCII rune: the index from 0, or -1.
IndexRune(p, r) == IndexFrom(p, r, 1)

\* Split that sets full to the input whether or not it holds a newline.
Split_FullAlways(p) ==
    LET i == IndexRune(p, 10)
    IN  IF i > 0 THEN [short |-> SubSeq(p, 1, i), full |-> p]
        ELSE [short |-> p, full |-> p]

\* Write's short and full of the trimmed p.
Split(p) ==
    LET i == IndexRune(p, 10)
    IN  IF i > 0 THEN [short |-> SubSeq(p, 1, i), full |-> p]
        ELSE [short |-> p, full |-> <<>>]

\* The Message Write builds of the trimmed p; host, facility, time, file
\* and line are those of GelfMessage.
NewMessage(p) ==
    [GelfMessage(Lit(Split(p).full), <<>>) EXCEPT !.Short = Lit(Split(p).short)]

\* Write up to json.Marshal in WriteMessage.
Write(c, input) ==
    /\ wpc = "new"
    /\ fr[c].pc = "idle"
    /\ nCalls' = nCalls + 1
    /\ LET p == TrimSpace(input)
           m == NewMessage(p)
           j == MarshalJSON(m)
           f == [IdleFrame EXCEPT !.id = nCalls + 1]
       IN  /\ wp' = input
           /\ wm' = m
           /\ fr' = [fr EXCEPT ![c] =
                        IF j.err THEN Return(f, "json")
                        ELSE [f EXCEPT !.pc = "switch", !.mBytes = j.b]]
    /\ wpc' = "sent"
    /\ UNCHANGED <<CompressionType, CompressionLevel, mu, wire, cfgChanges, cfgLog,
                   wret, codecVars, httpVars>>

\* Write after w.WriteMessage(&m): return 0, err or return len(p), nil; a
\* panic of WriteMessage passes through Write.
WriteReturn(c) ==
    /\ wpc = "sent"
    /\ Over(fr[c])
    /\ IF fr[c].pc = "panicked"
       THEN wpc' = "panicked" /\ wret' = wret
       ELSE /\ wpc' = "returned"
            /\ wret' = IF fr[c].ret = "nil"
                       THEN [n |-> Len(TrimSpace(wp)), err |-> ""]
                       ELSE [n |-> 0, err |-> fr[c].ret]
    /\ UNCHANGED <<wp, wm, udpVars, codecVars, httpVars>>

InitWrite ==
    /\ \E cfg \in Configs : CompressionType = cfg[1] /\ CompressionLevel = cfg[2]
    /\ NoCalls
    /\ CodecIdle
    /\ HttpIdle /\ hVersion = "udp"
    /\ WriteIdle

\* The inputs are shorter than one datagram: writeChunked is not entered.
NextWrite ==
    \/ \E input \in WriteInputs : Write(1, input)
    \/ SwitchType(1)
    \/ PanicUnknownType(1)
    \/ ReadLevel(1)
    \/ WriteSingle(1)
    \/ WriteReturn(1)

SpecWrite == InitWrite /\ [][NextWrite]_vars

\* t is p without the white space at its ends.
Trimmed(p, t) ==
    \E a, b \in 0..Len(p) :
        /\ a + Len(t) + b = Len(p)
        /\ t = SubSeq(p, a + 1, a + Len(t))
        /\ \A j \in 1..a : IsSpace(p[j])
        /\ \A j \in (Len(p) - b + 1)..Len(p) : IsSpace(p[j])
        /\ t # <<>> => ~IsSpace(t[1]) /\ ~IsSpace(t[Len(t)])

\* C17: of the input without the white space at its ends, Write puts the
\* text before the first newline into Short and the whole of it into Full;
\* when it holds no newline, the whole of it into Short and nothing into Full.
C17_ShortAndFull ==
    wpc # "new" =>
        \E n \in 0..Len(wp) :
            LET t == BBytes(IF wm.Full # <<>> THEN wm.Full ELSE wm.Short)
                s == BBytes(wm.Short)
            IN  /\ Len(t) = n
                /\ Trimmed(wp, t)
                /\ IF \E j \in 1..n : t[j] = 10
                   THEN /\ BBytes(wm.Full) = t
                        /\ Len(s) < n
                        /\ s = SubSeq(t, 1, Len(s))
                        /\ t[Len(s) + 1] = 10
                        /\ \A j \in 1..Len(s) : s[j] # 10
                   ELSE s = t /\ wm.Full = <<>>

C17_Witness ==
    /\ wpc = "returned"
    /\ wp = <<104, 101, 108, 108, 111, 10, 119, 111, 114, 108, 100>>
    /\ wm.Short = Lit(<<104, 101, 108, 108, 111>>)
    /\ wm.Full = Lit(wp)
    /\ wret.n = 11

(***************************************************************************)
(* The sizes of the chunks                                                 *)
(***************************************************************************)
\* C18: of a message on the chunked path every chunk but the last carries
\* ChunkSize - 12 payload bytes, the last carries the rest of the payload,
\* and no datagram is longer than ChunkSize.
C18_ChunkSizes ==
    \A c \in Callers :
        Chunking(fr[c]) =>
            LET ws   == CallWrites(fr[c].id)
                L    == BLen(fr[c].zBytes)
                n    == fr[c].nChunks
                data == ChunkSize - 12
            IN  \A k \in 1..Len(ws) :
                    /\ BLen(ws[k].buf) <= ChunkSize
                    /\ BLen(ws[k].buf) = 12 + BLen(Payload(ws[k].buf))
                    /\ BLen(Payload(ws[k].buf)) =
                           IF SequenceIndex(ws[k].buf) < n - 1 THEN data
                           ELSE L - (n - 1) * data

C18_Witness ==
    /\ SentChunked(fr[1])
    /\ BLen(fr[1].zBytes) = 3000
    /\ LET ws == CallWrites(fr[1].id)
       IN  /\ Len(ws) = 3
           /\ BLen(Payload(ws[1].buf)) = 1408
           /\ BLen(Payload(ws[2].buf)) = 1408
           /\ BLen(Payload(ws[3].buf)) = 184

(***************************************************************************)
(* The slices and the bytes left                                           *)
(***************************************************************************)
\* C19: in writeChunked every slice zBytes[off : off+chunkLen] lies within
\* zBytes, and a call whose writes all succeed ends with bytesLeft = 0: the
\* slice never panics and the error "bytes left after sending" is never
\* returned.
C19_SlicesInRange ==
    \A c \in Callers :
        LET f        == fr[c]
            L        == BLen(f.zBytes)
            chunkLen == IF f.bytesLeft < ChunkSize - 12 THEN f.bytesLeft
                        ELSE ChunkSize - 12
            off      == f.i * (ChunkSize - 12)
        IN  /\ f.pc = "chunk" => (0 <= off /\ 0 <= chunkLen /\ off + chunkLen <= L)
            /\ f.ret \notin {"panic slice", "bytes left"}
            /\ SentChunked(f) => f.bytesLeft = 0

C19_Witness ==
    /\ SentChunked(fr[1])
    /\ BLen(fr[1].zBytes) = 2 * (ChunkSize - 12)
    /\ Len(CallWrites(fr[1].id)) = 3
    /\ fr[1].bytesLeft = 0

(***************************************************************************)
(* The 8-bit loop index                                                    *)
(***************************************************************************)
\* C20: in writeChunked the 8-bit chunk count is the chunk count computed,
\* between 2 and 255; the 8-bit index i counts the chunks written so far and
\* stays below the count while the loop runs; a call whose writes all
\* succeed has written exactly that many chunks when it returns.
C20_LoopCountsToNChunks ==
    \A c \in Callers :
        LET f  == fr[c]
            ws == CallWrites(f.id)
        IN  /\ Chunking(f) =>
                /\ f.nChunks = numChunks(f.zBytes)
                /\ f.nChunks >= 2 /\ f.nChunks <= 255
                /\ Len(ws) <= f.nChunks
            /\ f.pc = "chunk" => (f.i = Len(ws) /\ f.i < f.nChunks)
            /\ SentChunked(f) => (Len(ws) = f.nChunks /\ f.i = f.nChunks)

C20_Witness ==
    /\ SentChunked(fr[1])
    /\ fr[1].nChunks = 255
    /\ fr[1].i = 255
    /\ Len(CallWrites(fr[1].id)) = 255

====
